---- MODULE Spec2Model ----
(***************************************************************************)
(* A model of scrape.py: the date converter convert_minguo_to_date and the *)
(* fetch / sort / strip / dump pipeline of main().                         *)
(*                                                                         *)
(* Text.  A Python str is a sequence of characters.  The CJK characters    *)
(* of the source are written by name: "MIN" "GUO" (the era marker),        *)
(* "NIAN" (year), "YUE" (month), "RI" (day).  Text whose characters no     *)
(* code inspects (display names, messages) is written as a sequence of     *)
(* longer fragments.  Python's None is the value None below.               *)
(***************************************************************************)
EXTENDS Integers, Sequences, FiniteSets, TLC

VARIABLES
    pc,                 \* position of main(): "get", "handle", "sort", "strip", "dump", "done"
    index,              \* number of identifiers of LAW_IDS already handled
    response,           \* outcome of requests.get for the identifier being handled
    law_data_list,      \* the records collected so far (with their sort key)
    final_data_to_save, \* the records without their sort key
    data_json,          \* the content written to data.json
    minguo_string,      \* argument of a direct call of convert_minguo_to_date
    conv_args,          \* how minguo_string was written (kind, n1, n2, n3)
    conv_out,           \* outcome of that call
    conv_pc             \* "call" before the call, "returned" after it

vars == <<pc, index, response, law_data_list, final_data_to_save, data_json,
          minguo_string, conv_args, conv_out, conv_pc>>

----------------------------------------------------------------------------
(* Bounds *)

NumIds == 3          \* how many identifiers of LAW_IDS a run handles
MaxMonth == 13       \* direct calls: month numbers 0..MaxMonth
MaxDay == 32         \* direct calls: day numbers 0..MaxDay

----------------------------------------------------------------------------
(* Python values *)

None == <<"None">>

N_A == <<"N", "/", "A">>

Truthy(v) == v # None /\ v # <<>>

\* x or default
Or(x, default) == IF Truthy(x) THEN x ELSE default

Contains(s, c) == \E i \in 1..Len(s) : s[i] = c

DigitChars == {"0", "1", "2", "3", "4", "5", "6", "7", "8", "9"}

DigitValue(c) ==
    CASE c = "0" -> 0 [] c = "1" -> 1 [] c = "2" -> 2 [] c = "3" -> 3
      [] c = "4" -> 4 [] c = "5" -> 5 [] c = "6" -> 6 [] c = "7" -> 7
      [] c = "8" -> 8 [] c = "9" -> 9

\* int(digits): the decimal value of a run of digits (leading zeros allowed)
RECURSIVE int(_)
int(digits) ==
    IF digits = <<>> THEN 0
    ELSE 10 * int(SubSeq(digits, 1, Len(digits) - 1)) + DigitValue(digits[Len(digits)])

----------------------------------------------------------------------------
(* re.search(r'MINGUO\s*(\d+)\s*NIAN\s*(\d+)\s*YUE\s*(\d+)\s*RI', s) *)

\* \s* from position i: the first position at or after i that holds no space
RECURSIVE SkipSpaces(_, _)
SkipSpaces(s, i) ==
    IF i <= Len(s) /\ s[i] = " " THEN SkipSpaces(s, i + 1) ELSE i

\* \d+ from position i: the position after the longest run of digits
RECURSIVE SkipDigits(_, _)
SkipDigits(s, i) ==
    IF i <= Len(s) /\ s[i] \in DigitChars THEN SkipDigits(s, i + 1) ELSE i

CharAt(s, i, c) == i <= Len(s) /\ s[i] = c

NoMatch == [matched |-> FALSE, groups |-> <<>>]

\* The pattern anchored at position i.  \s* and \d+ are greedy and each is
\* followed by a character of another class, so backtracking finds nothing
\* the greedy scan misses.
MatchAt(s, i) ==
    IF ~(CharAt(s, i, "MIN") /\ CharAt(s, i + 1, "GUO")) THEN NoMatch
    ELSE LET y1 == SkipSpaces(s, i + 2)
             y2 == SkipDigits(s, y1)
             ny == SkipSpaces(s, y2)
             m1 == SkipSpaces(s, ny + 1)
             m2 == SkipDigits(s, m1)
             nm == SkipSpaces(s, m2)
             d1 == SkipSpaces(s, nm + 1)
             d2 == SkipDigits(s, d1)
             nd == SkipSpaces(s, d2)
         IN  IF /\ y2 > y1 /\ CharAt(s, ny, "NIAN")
                /\ m2 > m1 /\ CharAt(s, nm, "YUE")
                /\ d2 > d1 /\ CharAt(s, nd, "RI")
             THEN [matched |-> TRUE,
                   groups  |-> <<SubSeq(s, y1, y2 - 1),
                                 SubSeq(s, m1, m2 - 1),
                                 SubSeq(s, d1, d2 - 1)>>]
             ELSE NoMatch

\* re.search: the leftmost position where the pattern matches
re_search(s) ==
    LET hits == {i \in 1..Len(s) : MatchAt(s, i).matched}
    IN  IF hits = {} THEN NoMatch
        ELSE MatchAt(s, CHOOSE i \in hits : \A j \in hits : i <= j)

----------------------------------------------------------------------------
(* datetime(year, month, day) *)

Sentinel == <<1970, 1, 1>>

Returned(d) == [raised |-> FALSE, value |-> d]

Raised == [raised |-> TRUE, value |-> <<>>]

IsLeap(y) == y % 4 = 0 /\ (y % 100 # 0 \/ y % 400 = 0)

DaysInMonth(y, m) ==
    IF m = 2 THEN (IF IsLeap(y) THEN 29 ELSE 28)
    ELSE IF m \in {4, 6, 9, 11} THEN 30 ELSE 31

\* The constructor raises ValueError outside year 1..9999, month 1..12,
\* day 1..days of the month.
datetime(year, month, day) ==
    IF /\ 1 <= year /\ year <= 9999
       /\ 1 <= month /\ month <= 12
       /\ 1 <= day /\ day <= DaysInMonth(year, month)
    THEN Returned(<<year, month, day>>)
    ELSE Raised

\* a < b on datetime values
DateLess(a, b) ==
    \/ a[1] < b[1]
    \/ a[1] = b[1] /\ a[2] < b[2]
    \/ a[1] = b[1] /\ a[2] = b[2] /\ a[3] < b[3]

----------------------------------------------------------------------------
(* convert_minguo_to_date *)

\* convert_minguo_to_date with the month and the day groups exchanged
ConvertSwapsMonthAndDay(s) ==
    IF ~Truthy(s) \/ ~Contains(s, "NIAN") THEN Returned(Sentinel)
    ELSE LET parts == re_search(s)
         IN  IF parts.matched
             THEN datetime(int(parts.groups[1]) + 1911,
                           int(parts.groups[3]),
                           int(parts.groups[2]))
             ELSE Returned(Sentinel)

convert_minguo_to_date(s) ==
    IF ~Truthy(s) \/ ~Contains(s, "NIAN") THEN Returned(Sentinel)
    ELSE LET parts == re_search(s)
         IN  IF parts.matched
             THEN datetime(int(parts.groups[1]) + 1911,
                           int(parts.groups[2]),
                           int(parts.groups[3]))
             ELSE Returned(Sentinel)

----------------------------------------------------------------------------
(* main(): configuration *)

\* The head of the 54 identifiers of LAW_IDS; a run handles the first NumIds.
LAW_IDS_HEAD == <<"FL022359", "FL016233", "FL016234", "FL054794", "FL060335", "FL016237">>

LAW_IDS == SubSeq(LAW_IDS_HEAD, 1, NumIds)

\* name of a record whose response carried no LawName
NotFoundName == <<"(not found)">>

\* name of a record whose response status was not 200
StatusFailName(status_code) == <<"API fetch failed (Code: ", ToString(status_code), ")">>

\* name of a record whose handling raised an exception
InvalidDataName == <<"server returned invalid data (maybe HTML)">>

\* A character the encoding of standard output cannot encode: print() of a
\* text holding it raises UnicodeEncodeError.
Unencodable == {"U+20BB7"}

StdoutEncodes(s) == \A i \in 1..Len(s) : s[i] \notin Unencodable

----------------------------------------------------------------------------
(* main(): what the remote API may answer *)

StatusCodes == {200, 404, 500}

NoJson == [LawName |-> None, PromulgationDate |-> None, AmendmentDate |-> None]

\* requests.get raised (timeout, connection error)
GetRaised == [raised |-> TRUE, status_code |-> 0, is_json |-> FALSE, law_json |-> NoJson]

\* no request in flight
NoResponse == [raised |-> FALSE, status_code |-> 0, is_json |-> FALSE, law_json |-> NoJson]

HttpResponse(status_code, is_json, law_json) ==
    [raised |-> FALSE, status_code |-> status_code, is_json |-> is_json, law_json |-> law_json]

\* str(n)
RECURSIVE str(_)
str(n) ==
    IF n < 10 THEN <<ToString(n)>> ELSE str(n \div 10) \o <<ToString(n % 10)>>

\* "MINGUO n1 NIAN n2 YUE n3 RI", the format the API uses
MinguoSpaced(n1, n2, n3) ==
    <<"MIN", "GUO", " ">> \o str(n1) \o <<" ", "NIAN", " ">> \o str(n2)
        \o <<" ", "YUE", " ">> \o str(n3) \o <<" ", "RI">>

NotAValidDate ==
    <<"n", "o", "t", " ", "a", " ", "v", "a", "l", "i", "d", " ", "d", "a", "t", "e">>

LawA == <<"Air Pollution Control Act">>

LawOdd == <<"Waste Disposal Act ", "U+20BB7">>

\* The JSON objects a status-200 response may carry: absent, empty, valid and
\* invalid values of each field.
JsonBodies ==
    [LawName : {None, <<>>, LawA},
     PromulgationDate : {None, MinguoSpaced(90, 1, 1)},
     AmendmentDate : {None, NotAValidDate}]
    \cup
    [LawName : {LawA},
     PromulgationDate : {None},
     AmendmentDate : {<<>>, MinguoSpaced(110, 3, 1), MinguoSpaced(111, 3, 1),
                      MinguoSpaced(112, 3, 1), MinguoSpaced(50, 3, 1),
                      MinguoSpaced(112, 13, 1)}]
    \cup
    [LawName : {LawOdd},
     PromulgationDate : {None},
     AmendmentDate : {MinguoSpaced(112, 3, 1)}]

Responses ==
    {GetRaised}
    \cup {HttpResponse(c, FALSE, NoJson) : c \in StatusCodes}
    \cup {HttpResponse(200, TRUE, b) : b \in JsonBodies}

----------------------------------------------------------------------------
(* main(): the loop body, lines 51-86 *)

\* date_to_sort falling back to the promulgation date whenever the amendment
\* date is not of the three-number form
DateToSortFallsBackOnUnparseable(amendment_date, promulgation_date) ==
    IF amendment_date # N_A /\ re_search(amendment_date).matched
    THEN amendment_date
    ELSE promulgation_date

date_to_sort(amendment_date, promulgation_date) ==
    IF amendment_date # N_A THEN amendment_date ELSE promulgation_date

Record(law_id, name, promulgation_date, amendment_date, amendment_date_obj) ==
    [id |-> law_id, name |-> name, promulgationDate |-> promulgation_date,
     amendmentDate |-> amendment_date, amendmentDateObj |-> amendment_date_obj]

StatusFailRecord(law_id, status_code) ==
    Record(law_id, StatusFailName(status_code), N_A, N_A, Sentinel)

ExceptionRecord(law_id) ==
    Record(law_id, InvalidDataName, N_A, N_A, Sentinel)

\* The try block, lines 55-81: the records it appends and whether it raised.
\* requests.get, response.json (a body that is no JSON object), the date
\* conversion and the print of the fetched name can raise.  The prints of
\* lines 80 and 85 write fixed text, the identifier, the status code and an
\* exception message, which standard output encodes like the text of line 48.
TryBlock(law_id, r) ==
    IF r.raised THEN [appended |-> <<>>, raised |-> TRUE]
    ELSE IF r.status_code = 200
    THEN IF ~r.is_json THEN [appended |-> <<>>, raised |-> TRUE]
         ELSE LET name == Or(r.law_json.LawName, NotFoundName)
                  promulgation_date == Or(r.law_json.PromulgationDate, N_A)
                  amendment_date == Or(r.law_json.AmendmentDate, N_A)
                  amendment_date_obj ==
                      convert_minguo_to_date(date_to_sort(amendment_date, promulgation_date))
              IN  IF amendment_date_obj.raised
                  THEN [appended |-> <<>>, raised |-> TRUE]
                  ELSE [appended |-> <<Record(law_id, name, promulgation_date,
                                              amendment_date, amendment_date_obj.value)>>,
                        \* line 77 prints the name after the append
                        raised |-> ~StdoutEncodes(name)]
    ELSE [appended |-> <<StatusFailRecord(law_id, r.status_code)>>, raised |-> FALSE]

\* the loop body with an except clause that records nothing
LoopBodySwallowsException(law_id, r) == TryBlock(law_id, r).appended

\* try / except Exception, lines 54-86: the records one iteration appends
LoopBody(law_id, r) ==
    LET t == TryBlock(law_id, r)
    IN  IF t.raised THEN t.appended \o <<ExceptionRecord(law_id)>> ELSE t.appended

----------------------------------------------------------------------------
(* main(): sort, strip, dump, lines 88-105 *)

\* x placed behind every element whose key is not less than x's
RECURSIVE InsertDescending(_, _)
InsertDescending(x, s) ==
    IF s = <<>> THEN <<x>>
    ELSE IF DateLess(Head(s).amendmentDateObj, x.amendmentDateObj)
         THEN <<x>> \o s
         ELSE <<Head(s)>> \o InsertDescending(x, Tail(s))

\* x placed behind every element whose key is not greater than x's
RECURSIVE InsertAscending(_, _)
InsertAscending(x, s) ==
    IF s = <<>> THEN <<x>>
    ELSE IF DateLess(x.amendmentDateObj, Head(s).amendmentDateObj)
         THEN <<x>> \o s
         ELSE <<Head(s)>> \o InsertAscending(x, Tail(s))

\* the sort without reverse=True: ascending by key
RECURSIVE SortAscending(_)
SortAscending(s) ==
    IF s = <<>> THEN <<>>
    ELSE InsertAscending(s[Len(s)], SortAscending(SubSeq(s, 1, Len(s) - 1)))

\* an ascending sort followed by a reversal: descending, equal keys reversed
SortThenReverse(s) ==
    LET a == SortAscending(s) IN [i \in 1..Len(a) |-> a[Len(a) + 1 - i]]

\* list.sort(key=..., reverse=True): descending by key, equal keys in their
\* original order
RECURSIVE sort_reverse(_)
sort_reverse(s) ==
    IF s = <<>> THEN <<>>
    ELSE InsertDescending(s[Len(s)], sort_reverse(SubSeq(s, 1, Len(s) - 1)))

\* the strip that copies the whole record
StripItemKeepsSortKey(item) == item

\* lines 96-101
StripItem(item) ==
    [id |-> item.id, name |-> item.name,
     promulgationDate |-> item.promulgationDate, amendmentDate |-> item.amendmentDate]

StripAll(s) == [i \in 1..Len(s) |-> StripItem(s[i])]

----------------------------------------------------------------------------
(* main() as a state machine *)

NoArgs == [kind |-> "none", n1 |-> 0, n2 |-> 0, n3 |-> 0]

NotCalled == [raised |-> FALSE, value |-> <<>>]

ConvIdle ==
    /\ minguo_string = None
    /\ conv_args = NoArgs
    /\ conv_out = NotCalled
    /\ conv_pc = "idle"

Init ==
    /\ pc = "get"
    /\ index = 0
    /\ response = NoResponse
    /\ law_data_list = <<>>
    /\ final_data_to_save = <<>>
    /\ data_json = <<>>
    /\ ConvIdle

conv_vars == <<minguo_string, conv_args, conv_out, conv_pc>>

\* line 56: the request for the next identifier is answered, or raises
Get ==
    /\ pc = "get"
    /\ \E r \in Responses : response' = r
    /\ pc' = "handle"
    /\ UNCHANGED <<index, law_data_list, final_data_to_save, data_json, conv_vars>>

\* lines 58-86: the rest of the iteration
Handle ==
    /\ pc = "handle"
    /\ law_data_list' = law_data_list \o LoopBody(LAW_IDS[index + 1], response)
    /\ index' = index + 1
    /\ response' = NoResponse
    /\ pc' = IF index + 1 = Len(LAW_IDS) THEN "sort" ELSE "get"
    /\ UNCHANGED <<final_data_to_save, data_json, conv_vars>>

\* line 91
Sort ==
    /\ pc = "sort"
    /\ law_data_list' = sort_reverse(law_data_list)
    /\ pc' = "strip"
    /\ UNCHANGED <<index, response, final_data_to_save, data_json, conv_vars>>

\* lines 94-101
Strip ==
    /\ pc = "strip"
    /\ final_data_to_save' = StripAll(law_data_list)
    /\ pc' = "dump"
    /\ UNCHANGED <<index, response, law_data_list, data_json, conv_vars>>

\* lines 104-105
Dump ==
    /\ pc = "dump"
    /\ data_json' = final_data_to_save
    /\ pc' = "done"
    /\ UNCHANGED <<index, response, law_data_list, final_data_to_save, conv_vars>>

Next == Get \/ Handle \/ Sort \/ Strip \/ Dump

Spec == Init /\ [][Next]_vars

----------------------------------------------------------------------------
(* Direct calls of convert_minguo_to_date *)

ConvYears == {0, 1, 50, 58, 59, 89, 90, 112, 113, 189, 8088, 8089}

\* no spaces, month and day padded to two digits
MinguoCompact(n1, n2, n3) ==
    <<"MIN", "GUO">> \o str(n1) \o <<"NIAN">>
        \o (IF n2 < 10 THEN <<"0">> ELSE <<>>) \o str(n2) \o <<"YUE">>
        \o (IF n3 < 10 THEN <<"0">> ELSE <<>>) \o str(n3) \o <<"RI">>

\* the date inside a longer text
MinguoEmbedded(n1, n2, n3) ==
    <<"o", "n", " ", "(">> \o MinguoSpaced(n1, n2, n3) \o <<")", " ", "x">>

MinguoForms(n1, n2, n3) ==
    {MinguoSpaced(n1, n2, n3), MinguoCompact(n1, n2, n3), MinguoEmbedded(n1, n2, n3)}

\* texts that are absent, empty, without the year character, or not of the
\* three-number form
OtherStrings ==
    {None, <<>>, N_A, NotAValidDate,
     <<"MIN", "GUO", " ", "1", "1", "3">>,
     <<"MIN", "GUO", " ", "1", "1", "0", " ", "NIAN">>,
     <<"1", "1", "3", " ", "NIAN", " ", "5", " ", "YUE", " ", "2", "0", " ", "RI">>,
     <<"MIN", "GUO", " ", "1", "1", "3", " ", "NIAN", " ", "5", " ", "YUE", " ", "2", "0">>,
     <<"MIN", "GUO", " ", "NIAN", " ", "5", " ", "YUE", " ", "2", "0", " ", "RI">>,
     <<"MIN", "GUO", " ", "1", "1", "3", " ", "YUE", " ", "5", " ", "NIAN", " ", "2", "0", " ", "RI">>,
     <<"MIN", "GUO", " ", "1", "1", "3", "a", " ", "NIAN", " ", "5", " ", "YUE", " ", "2", "0", " ", "RI">>,
     <<"MIN", " ", "GUO", " ", "1", "1", "3", " ", "NIAN", " ", "5", " ", "YUE", " ", "2", "0", " ", "RI">>}

ConvInit ==
    /\ pc = "get"
    /\ index = 0
    /\ response = NoResponse
    /\ law_data_list = <<>>
    /\ final_data_to_save = <<>>
    /\ data_json = <<>>
    /\ conv_pc = "call"
    /\ conv_out = NotCalled
    /\ \/ \E n1 \in ConvYears, n2 \in 0..MaxMonth, n3 \in 0..MaxDay :
            /\ conv_args = [kind |-> "minguo", n1 |-> n1, n2 |-> n2, n3 |-> n3]
            /\ minguo_string \in MinguoForms(n1, n2, n3)
       \/ /\ conv_args = [kind |-> "other", n1 |-> 0, n2 |-> 0, n3 |-> 0]
          /\ minguo_string \in OtherStrings

ConvCall ==
    /\ conv_pc = "call"
    /\ conv_out' = convert_minguo_to_date(minguo_string)
    /\ conv_pc' = "returned"
    /\ UNCHANGED <<pc, index, response, law_data_list, final_data_to_save, data_json,
                   minguo_string, conv_args>>

ConvNext == ConvCall

SpecConv == ConvInit /\ [][ConvNext]_vars

----------------------------------------------------------------------------
(* Properties of the pipeline, checked under Spec *)

IdIndex(law_id) == CHOOSE k \in 1..Len(LAW_IDS) : LAW_IDS[k] = law_id

ExportFields == {"id", "name", "promulgationDate", "amendmentDate"}

EntriesOf(law_id) == {i \in 1..Len(data_json) : data_json[i].id = law_id}

HasEntry(law_id, amendment_date) ==
    \E i \in 1..Len(data_json) :
        data_json[i].id = law_id /\ data_json[i].amendmentDate = amendment_date

EntryPos(law_id, amendment_date) ==
    CHOOSE i \in 1..Len(data_json) :
        data_json[i].id = law_id /\ data_json[i].amendmentDate = amendment_date

\* The exported entries stand in the places of the ordered records.
SamePlaces ==
    /\ Len(data_json) = Len(law_data_list)
    /\ \A i \in 1..Len(data_json) : data_json[i].id = law_data_list[i].id

\* C1: for every mix of outcomes (status 200 with data, another status, an
\* exception raised anywhere while an identifier is handled) the run handles
\* every identifier and the exported document has exactly one entry per
\* identifier: as many entries as identifiers, none missing, none twice.
C1_ExactlyOneEntryPerIdentifier ==
    pc = "done" =>
        /\ index = Len(LAW_IDS)
        /\ Len(data_json) = Len(LAW_IDS)
        /\ \A k \in 1..Len(LAW_IDS) : Cardinality(EntriesOf(LAW_IDS[k])) = 1

Amended110 == MinguoSpaced(110, 3, 1)

Amended111 == MinguoSpaced(111, 3, 1)

Amended112 == MinguoSpaced(112, 3, 1)

YearsInOrder110_112_111 ==
    /\ pc = "done"
    /\ HasEntry(LAW_IDS[1], Amended110)
    /\ HasEntry(LAW_IDS[2], Amended112)
    /\ HasEntry(LAW_IDS[3], Amended111)

\* C2: the exported document is in descending order of sort key: of two
\* entries the earlier one never has the smaller key.  Records fetched with
\* amendment dates of the era years 110, 112, 111, in that order of input,
\* come out in the order 112, 111, 110.
C2_DescendingOrder ==
    pc = "done" =>
        /\ SamePlaces
        /\ \A i, j \in 1..Len(law_data_list) :
              i < j => ~DateLess(law_data_list[i].amendmentDateObj,
                                 law_data_list[j].amendmentDateObj)
        /\ YearsInOrder110_112_111 =>
              /\ EntryPos(LAW_IDS[2], Amended112) < EntryPos(LAW_IDS[3], Amended111)
              /\ EntryPos(LAW_IDS[3], Amended111) < EntryPos(LAW_IDS[1], Amended110)

C2_Witness ==
    /\ YearsInOrder110_112_111
    /\ data_json[1].id = LAW_IDS[2]
    /\ data_json[2].id = LAW_IDS[3]
    /\ data_json[3].id = LAW_IDS[1]

\* C3: the ordering is stable: records with equal sort keys (the sentinel of
\* failed fetches and of unparseable dates included) come out in the order
\* their identifiers have in the input list.
C3_StableOrder ==
    pc = "done" =>
        /\ SamePlaces
        /\ \A i, j \in 1..Len(law_data_list) :
              (i < j /\ law_data_list[i].amendmentDateObj = law_data_list[j].amendmentDateObj)
                  => IdIndex(data_json[i].id) <= IdIndex(data_json[j].id)

\* a dated record fetched last comes out first; a failed fetch and an
\* unparseable date, both with the sentinel, follow in input order
C3_Witness ==
    /\ pc = "done"
    /\ Len(data_json) = 3
    /\ data_json[1].id = LAW_IDS[3]
    /\ law_data_list[1].amendmentDateObj = <<2023, 3, 1>>
    /\ data_json[2].id = LAW_IDS[1]
    /\ data_json[2].name = <<"API fetch failed (Code: ", "404", ")">>
    /\ data_json[3].id = LAW_IDS[2]
    /\ data_json[3].amendmentDate = NotAValidDate
    /\ law_data_list[2].amendmentDateObj = <<1970, 1, 1>>
    /\ law_data_list[3].amendmentDateObj = <<1970, 1, 1>>

\* the names a record built from a status-200 JSON answer can carry
FetchedNames == {NotFoundName, LawA, LawOdd}

Promulgated90 == MinguoSpaced(90, 1, 1)

\* C4: the sort key of a fetched record is the conversion of amendmentDate
\* unless amendmentDate is the literal "N/A", and only then the conversion of
\* promulgationDate: "N/A" with promulgation on era 90-1-1 gives 2001-01-01;
\* an unparseable amendmentDate gives 1970-01-01 whatever promulgationDate is.
C4_SortKeyDerivation ==
    \A i \in 1..Len(law_data_list) :
        LET r == law_data_list[i]
        IN  r.name \in FetchedNames =>
              /\ r.amendmentDate # N_A =>
                    convert_minguo_to_date(r.amendmentDate) = Returned(r.amendmentDateObj)
              /\ r.amendmentDate = N_A =>
                    convert_minguo_to_date(r.promulgationDate) = Returned(r.amendmentDateObj)
              /\ (r.amendmentDate = N_A /\ r.promulgationDate = Promulgated90) =>
                    r.amendmentDateObj = <<2001, 1, 1>>
              /\ r.amendmentDate = NotAValidDate => r.amendmentDateObj = <<1970, 1, 1>>

C4_Witness ==
    \E i, j \in 1..Len(law_data_list) :
        /\ law_data_list[i].name = LawA
        /\ law_data_list[i].amendmentDate = N_A
        /\ law_data_list[i].promulgationDate = Promulgated90
        /\ law_data_list[i].amendmentDateObj = <<2001, 1, 1>>
        /\ law_data_list[j].name = LawA
        /\ law_data_list[j].amendmentDate = NotAValidDate
        /\ law_data_list[j].promulgationDate = Promulgated90
        /\ law_data_list[j].amendmentDateObj = <<1970, 1, 1>>

DateForSort(r) == IF r.amendmentDate # N_A THEN r.amendmentDate ELSE r.promulgationDate

\* the record's date is missing or not of the three-number form
CarriesSentinel(r) ==
    r.amendmentDateObj = <<1970, 1, 1>> /\ ~re_search(DateForSort(r)).matched

\* the record's key was parsed from a date of the three-number form
ParsedFromDate(r) == re_search(DateForSort(r)).matched

\* C7: records with the sentinel sort key come last: in the exported document
\* no record with a missing or unparseable date precedes a record whose key
\* was parsed from a valid date, dates before 1970 included.
C7_SentinelRecordsLast ==
    pc = "done" =>
        /\ SamePlaces
        /\ \A i, j \in 1..Len(law_data_list) :
              i < j => ~(CarriesSentinel(law_data_list[i]) /\ ParsedFromDate(law_data_list[j]))

\* C8: the export only drops the sort key: the exported sequence has the
\* length and the order of the ordered records, and every exported object has
\* exactly the fields id, name, promulgationDate, amendmentDate, with the
\* record's values.
C8_ExportDropsOnlySortKey ==
    /\ pc \in {"dump", "done"} =>
          /\ Len(final_data_to_save) = Len(law_data_list)
          /\ \A i \in 1..Len(law_data_list) :
                /\ DOMAIN final_data_to_save[i] = ExportFields
                /\ \A f \in ExportFields : final_data_to_save[i][f] = law_data_list[i][f]
    /\ pc = "done" =>
          /\ Len(data_json) = Len(law_data_list)
          /\ \A i \in 1..Len(law_data_list) :
                /\ DOMAIN data_json[i] = ExportFields
                /\ \A f \in ExportFields : data_json[i][f] = law_data_list[i][f]

C8_Witness ==
    /\ pc = "done"
    /\ Len(data_json) = Len(LAW_IDS)
    /\ data_json[1].name = LawA
    /\ law_data_list[1].amendmentDateObj = <<2023, 3, 1>>
    /\ data_json[Len(data_json)].name = NotFoundName

FailurePlaceholder(law_id, name) ==
    [id |-> law_id, name |-> name, promulgationDate |-> N_A, amendmentDate |-> N_A,
     amendmentDateObj |-> <<1970, 1, 1>>]

\* C9: a failed retrieval is recorded and not fatal.  A status other than 200
\* appends one record whose name embeds the status code; an exception while
\* fetching or parsing appends a record with the generic invalid-data name;
\* both have "N/A" dates and the 1970-01-01 sort key, and the loop goes on to
\* the next identifier.
C9_FailurePlaceholder ==
    [][pc = "handle" =>
          LET law_id == LAW_IDS[index + 1]
              last == law_data_list'[Len(law_data_list')]
          IN  /\ (~response.raised /\ response.status_code # 200) =>
                    /\ Len(law_data_list') = Len(law_data_list) + 1
                    /\ last = FailurePlaceholder(law_id, last.name)
                    /\ Len(last.name) = 3
                    /\ last.name[2] = ToString(response.status_code)
              /\ (\/ response.raised
                  \/ response.status_code = 200 /\ ~response.is_json
                  \/ response.law_json.AmendmentDate = MinguoSpaced(112, 13, 1)) =>
                    /\ Len(law_data_list') = Len(law_data_list) + 1
                    /\ last = FailurePlaceholder(law_id, InvalidDataName)
              /\ SubSeq(law_data_list', 1, Len(law_data_list)) = law_data_list
              /\ index' = index + 1
              /\ pc' = IF index' < Len(LAW_IDS) THEN "get" ELSE "sort"]_vars

C9_Witness ==
    /\ pc = "get"
    /\ index = 2
    /\ law_data_list = <<FailurePlaceholder(LAW_IDS[1], <<"API fetch failed (Code: ", "500", ")">>),
                         FailurePlaceholder(LAW_IDS[2], InvalidDataName)>>

\* C10: a status-200 answer carrying a JSON object always yields the record
\* of the fetched data, whatever its date strings are: the name given (or the
\* not-found text), the date strings given (or "N/A"); a date that cannot be
\* converted changes the sort key only and never makes a failure placeholder.
C10_FetchedDataKept ==
    [][(pc = "handle" /\ ~response.raised /\ response.status_code = 200 /\ response.is_json) =>
          LET law_json == response.law_json
          IN  \E i \in (Len(law_data_list) + 1)..Len(law_data_list') :
                /\ law_data_list'[i].id = LAW_IDS[index + 1]
                /\ law_data_list'[i].name =
                      (IF law_json.LawName \in {None, <<>>}
                       THEN NotFoundName ELSE law_json.LawName)
                /\ law_data_list'[i].promulgationDate =
                      (IF law_json.PromulgationDate \in {None, <<>>}
                       THEN N_A ELSE law_json.PromulgationDate)
                /\ law_data_list'[i].amendmentDate =
                      (IF law_json.AmendmentDate \in {None, <<>>}
                       THEN N_A ELSE law_json.AmendmentDate)]_vars

----------------------------------------------------------------------------
(* Properties of convert_minguo_to_date, checked under SpecConv *)

\* C5: convert_minguo_to_date never raises: every input, absent, empty or any
\* text (month 13, day 32, day 30 of month 2, a very large year included),
\* gives a date value.
C5_ConvertNeverRaises ==
    conv_pc = "returned" => (~conv_out.raised /\ Len(conv_out.value) = 3)

MonthLengths == <<31, 28, 31, 30, 31, 30, 31, 31, 30, 31, 30, 31>>

GregorianLeap(y) == (y % 4 = 0 /\ y % 100 # 0) \/ y % 400 = 0

\* a date of the calendar that a datetime can hold (years 1 to 9999)
RealCalendarDate(y, m, d) ==
    /\ y \in 1..9999
    /\ m \in 1..12
    /\ d >= 1
    /\ d <= (IF m = 2 /\ GregorianLeap(y) THEN 29 ELSE MonthLengths[m])

\* C6: for a text of the form "MINGUO n1 NIAN n2 YUE n3 RI" where
\* (n1 + 1911, n2, n3) is a real calendar date the result is that date
\* (era 113-5-20 gives 2024-05-20); for a text that is absent, empty, without
\* the year character or not of the three-number form it is 1970-01-01.
C6_ConvertValue ==
    conv_pc = "returned" =>
        /\ (conv_args.kind = "minguo"
              /\ RealCalendarDate(conv_args.n1 + 1911, conv_args.n2, conv_args.n3)) =>
                 conv_out = [raised |-> FALSE,
                             value |-> <<conv_args.n1 + 1911, conv_args.n2, conv_args.n3>>]
        /\ conv_args.kind = "other" =>
                 conv_out = [raised |-> FALSE, value |-> <<1970, 1, 1>>]

C6_Witness ==
    /\ conv_pc = "returned"
    /\ conv_args = [kind |-> "minguo", n1 |-> 113, n2 |-> 5, n3 |-> 20]
    /\ minguo_string = <<"MIN", "GUO", " ", "1", "1", "3", " ", "NIAN", " ", "5", " ",
                         "YUE", " ", "2", "0", " ", "RI">>
    /\ conv_out = [raised |-> FALSE, value |-> <<2024, 5, 20>>]

====
